---- MODULE Spec2Model ----
(***************************************************************************)
(* Model of alarmclock.py: the playback controller (player_proc,           *)
(* current_mode, player_lock), the scheduler thread, the GPIO button       *)
(* callback and the /api/control, /api/settings and PATCH /api/alarms/<id>  *)
(* request handlers.                                                       *)
(*                                                                         *)
(* Every thread of the program is an actor with a list of the primitive    *)
(* steps it still has to run (todo); a call pushes the callee's steps in   *)
(* front of the caller's remaining steps.                                  *)
(***************************************************************************)
EXTENDS Integers, Sequences, FiniteSets, TLC

\* ------------------------------------------------------------------ bounds
\* Calendar days the clock can show, starting at day FirstDay (day 0 is a Monday).
NumDays == 2
FirstDay == 4
\* The time grid: hours per day, minutes per hour, clock readings per minute.
HoursPerDay == 2
MinPerHour == 2
SecPerMin == 2
\* Cap of the per-date fire counter and of the count of unreferenced live players.
MaxCount == 2

\* --------------------------------------------------------------- constants
DaysPerWeek == 7
NULL == "NULL"
\* no alarm id (ids are assigned from 1) and the NULL of last_fired_date
NoId == 0
NoDate == -1
\* player_proc = None
NoProc == [target |-> NULL, loop |-> FALSE, alive |-> FALSE]
\* the locals of start_alarm / start_content before they are assigned
NoArgs == [target |-> NULL, loop |-> FALSE]
\* no PATCH request is in progress
NoUa == [at |-> "none"]

Actors == {"sched", "btn", "ctl"}
\* ids of the rows the alarms table can hold
AlarmIds == {1, 2}
Modes == {"idle", "alarm", "content"}
\* *.mp3 files of alarmtones/ and the values the content_value setting takes
TonePool == {"tone1"}
alarm_tone_path == "alarmtone.mp3"
ContentValues == {"stream1", "stream2"}
\* days_mask values of the stored alarms (31 = Mon..Fri, 127 = every day)
MaskChoices == {31, 96, 127}

\* -------------------------------------------------------------------- time
TicksPerHour == MinPerHour * SecPerMin
TicksPerDay == HoursPerDay * TicksPerHour
Dates == FirstDay .. (FirstDay + NumDays - 1)
Instants == (FirstDay * TicksPerDay) .. ((FirstDay + NumDays) * TicksPerDay - 1)

\* now_dt.date().isoformat(): the calendar date of an instant
today_s(t) == t \div TicksPerDay
\* now_dt.weekday(): Mon=0..Sun=6
weekday(t) == today_s(t) % DaysPerWeek

\* f"{hh:02d}:{mm:02d}" : the stored text, two digits each (the colon is left out)
Fmt2(n) == <<n \div 10, n % 10>>
HHMM(hh, mm) == Fmt2(hh) \o Fmt2(mm)
\* int(x) of a two-digit field
ParseInt(s) == s[1] * 10 + s[2]
TimeStrings == {HHMM(hh, mm) : hh \in 0 .. (HoursPerDay - 1), mm \in 0 .. (MinPerHour - 1)}

\* now_dt.replace(hour=hh, minute=mm, second=0, microsecond=0)
alarm_scheduled_datetime_for_today(time_hhmm, now) ==
    LET hh == ParseInt(SubSeq(time_hhmm, 1, 2))
        mm == ParseInt(SubSeq(time_hhmm, 3, 4))
    IN  today_s(now) * TicksPerDay + hh * TicksPerHour + mm * SecPerMin

\* (mask & (1 << wd)) != 0
BitSet_sunday0(mask, wd) == (mask \div (2 ^ ((wd + 1) % DaysPerWeek))) % 2 = 1
BitSet(mask, wd) == (mask \div (2 ^ wd)) % 2 = 1

\* last_tick < scheduled <= now_dt
crosses_inclusive(lt, scheduled, now) == lt <= scheduled /\ scheduled <= now
crosses(lt, scheduled, now) == lt < scheduled /\ scheduled <= now

\* the three "continue" tests and the crossing test of the loop body
is_due(row, lt, now) ==
    /\ row.enabled = 1
    /\ BitSet(row.days_mask, weekday(now))
    /\ row.last_fired_date # today_s(now)
    /\ crosses(lt, alarm_scheduled_datetime_for_today(row.time_hhmm, now), now)

\* text comparison of two time_hhmm values (ORDER BY time_hhmm)
RECURSIVE TextLeq(_, _)
TextLeq(s, t) ==
    IF s = <<>> THEN TRUE
    ELSE IF t = <<>> THEN FALSE
    ELSE IF Head(s) # Head(t) THEN Head(s) < Head(t)
    ELSE TextLeq(Tail(s), Tail(t))

\* SELECT * FROM alarms ORDER BY time_hhmm: every order of the ids that is sorted
\* by time_hhmm (SQL leaves the order of equal keys open)
list_alarms_byid(tbl) ==
    LET n == Cardinality(DOMAIN tbl)
    IN  {s \in [1 .. n -> DOMAIN tbl] : \A i, j \in 1 .. n : i < j => s[i] < s[j]}
list_alarms(tbl) ==
    LET n == Cardinality(DOMAIN tbl)
    IN  {s \in [1 .. n -> DOMAIN tbl] :
            /\ \A i, j \in 1 .. n : i # j => s[i] # s[j]
            /\ \A i, j \in 1 .. n : i < j => TextLeq(tbl[s[i]].time_hhmm, tbl[s[j]].time_hhmm)}

\* the for loop with its break: the id of the first due alarm of the snapshot
RECURSIVE first_due(_, _, _, _)
first_due(order, tbl, lt, now) ==
    IF order = <<>> THEN NoId
    ELSE IF is_due(tbl[Head(order)], lt, now) THEN Head(order)
    ELSE first_due(Tail(order), tbl, lt, now)

Min(a, b) == IF a < b THEN a ELSE b

\* normalize_hhmm: int() of the two parts, the range test, f"{hh:02d}:{mm:02d}"
ValidHHMM(v) == v[1] \in 0 .. (HoursPerDay - 1) /\ v[2] \in 0 .. (MinPerHour - 1)
normalize_hhmm(v) == HHMM(v[1], v[2])

\* update_alarm: the row written back, from the row read and the given fields
update_alarm_anychange(row, p) ==
    LET new_time == IF "time_hhmm" \in DOMAIN p THEN p.time_hhmm ELSE row.time_hhmm
        new_mask == IF "days_mask" \in DOMAIN p THEN p.days_mask ELSE row.days_mask
        new_enabled == IF "enabled" \in DOMAIN p THEN (IF p.enabled THEN 1 ELSE 0)
                       ELSE row.enabled
        schedule_changed == new_time # row.time_hhmm \/ new_mask # row.days_mask
        enabled_changed == new_enabled # row.enabled
    IN  [time_hhmm |-> new_time, days_mask |-> new_mask, enabled |-> new_enabled,
         last_fired_date |-> IF schedule_changed \/ enabled_changed
                             THEN NoDate ELSE row.last_fired_date]
update_alarm_keepfired(row, p) ==
    LET new_time == IF "time_hhmm" \in DOMAIN p THEN p.time_hhmm ELSE row.time_hhmm
        new_mask == IF "days_mask" \in DOMAIN p THEN p.days_mask ELSE row.days_mask
        new_enabled == IF "enabled" \in DOMAIN p THEN (IF p.enabled THEN 1 ELSE 0)
                       ELSE row.enabled
    IN  [time_hhmm |-> new_time, days_mask |-> new_mask, enabled |-> new_enabled,
         last_fired_date |-> row.last_fired_date]
update_alarm(row, p) ==
    LET new_time == IF "time_hhmm" \in DOMAIN p THEN p.time_hhmm ELSE row.time_hhmm
        new_mask == IF "days_mask" \in DOMAIN p THEN p.days_mask ELSE row.days_mask
        new_enabled == IF "enabled" \in DOMAIN p THEN (IF p.enabled THEN 1 ELSE 0)
                       ELSE row.enabled
        schedule_changed == new_time # row.time_hhmm \/ new_mask # row.days_mask
        enabled_changed == new_enabled # row.enabled
    IN  [time_hhmm |-> new_time, days_mask |-> new_mask, enabled |-> new_enabled,
         last_fired_date |-> IF schedule_changed \/ (enabled_changed /\ new_enabled = 1)
                             THEN NoDate ELSE row.last_fired_date]

\* ------------------------------------------------------------------- state
VARIABLES
    todo,           \* per actor: the primitive steps still to run
    player_lock,    \* NULL or the actor holding the lock
    player_proc,    \* NoProc or [target, loop, alive]: the Popen object
    orphans,        \* live player processes player_proc no longer refers to
    current_mode,   \* "idle" | "alarm" | "content"
    content_value,  \* settings table, key content_value
    alarms,         \* alarms table: id -> row
    last_tick,      \* scheduler local
    now_dt,         \* scheduler local: the last clock reading
    due,            \* scheduler local: id of the alarm found due in this tick
    started,        \* scheduler position: start_alarm() was called in this tick
    pargs,          \* per actor: the (target, loop) arguments of play_vlc
    old_cv,         \* api_settings local old_content_value
    fires,          \* per (id, date): calls of start_alarm() by the scheduler
    btn_branch,     \* branch of on_button_pressed taken by the last press
    btn_solo,       \* no other actor stepped since the button read current_mode
    ua,             \* update_alarm locals of the PATCH request in progress
    rearmed,        \* date on which an edit cleared last_fired_date after a firing
    lapsed,         \* per (id, date): the alarm was due in a tick that fired another one
    owed            \* alarm found due by the last tick, which raised before marking it fired

vars == <<todo, player_lock, player_proc, orphans, current_mode, content_value,
          alarms, last_tick, now_dt, due, started, pargs, old_cv, fires,
          btn_branch, btn_solo, ua, rearmed, lapsed, owed>>

playback == <<player_lock, player_proc, orphans, current_mode>>
store == <<alarms, content_value>>
schedloc == <<last_tick, now_dt, due, started, fires>>
hist == <<ua, rearmed, lapsed, owed>>

TypeOK ==
    /\ todo \in [Actors -> Seq(STRING)]
    /\ player_lock \in Actors \cup {NULL}
    /\ orphans \in 0 .. MaxCount
    /\ current_mode \in Modes
    /\ content_value \in ContentValues
    /\ last_tick \in Instants /\ now_dt \in Instants
    /\ started \in BOOLEAN /\ btn_solo \in BOOLEAN

\* ------------------------------------------------------------ step lists
\* stop_audio(): with player_lock: terminate/wait; player_proc = None; current_mode = "idle"
stop_audio_body == <<"sa_lock", "sa_term", "sa_clear", "sa_idle", "sa_unlock">>

\* play_vlc(): with player_lock: if alive: stop_audio(); Popen
play_vlc_nocheck == <<"pv_lock", "pv_popen", "pv_unlock">>
play_vlc_body == <<"pv_lock", "pv_check", "pv_popen", "pv_unlock">>

\* start_alarm(): set_system_volume; pick_random_alarmtone; play_vlc(tone, loop=True); mode
start_alarm_body == <<"vol", "pick_tone">> \o play_vlc_body \o <<"mode_alarm">>

\* start_content(): set_system_volume; get_setting("content_value"); play_vlc(cval, loop=False); mode
start_content_body == <<"vol", "get_cval">> \o play_vlc_body \o <<"mode_content">>

\* on_button_pressed, branch current_mode == "alarm"
button_alarm_nocontent == stop_audio_body
button_alarm_branch == stop_audio_body \o start_content_body

\* scheduler_thread, an alarm is due: set_last_fired(...); start_alarm(); break
due_startfirst == <<"call_start_alarm", "set_last_fired">>
due_branch == <<"set_last_fired", "call_start_alarm">>

\* ----------------------------------------------------------------- helpers
At(a, label) == todo[a] # <<>> /\ Head(todo[a]) = label
\* the actor goes on with the steps `pre` and then the rest of its list
Go(a, pre) == todo' = [todo EXCEPT ![a] = pre \o Tail(todo[a])]
Ghost(a) == btn_solo' = (a = "btn" /\ btn_solo)
Alive(p) == p.alive
NLive == (IF Alive(player_proc) THEN 1 ELSE 0) + orphans

\* ------------------------------------------------------------- stop_audio
sa_lock(a) ==
    /\ At(a, "sa_lock")
    /\ player_lock = NULL
    /\ player_lock' = a
    /\ Go(a, <<>>) /\ Ghost(a)
    /\ UNCHANGED <<player_proc, orphans, current_mode, store, schedloc, pargs, old_cv, btn_branch, hist>>

\* player_proc.terminate(); player_proc.wait(timeout=2), kill() on timeout: the process ends
sa_term_unguarded(a) ==
    /\ At(a, "sa_term")
    /\ IF Alive(player_proc)
       THEN /\ player_proc' = [player_proc EXCEPT !.alive = FALSE]
            /\ Go(a, <<>>)
            /\ UNCHANGED player_lock
       ELSE /\ todo' = [todo EXCEPT ![a] = <<>>]
            /\ player_lock' = NULL
            /\ UNCHANGED player_proc
    /\ Ghost(a)
    /\ UNCHANGED <<orphans, current_mode, store, schedloc, pargs, old_cv, btn_branch, hist>>
sa_term(a) ==
    /\ At(a, "sa_term")
    /\ player_proc' = IF Alive(player_proc) THEN [player_proc EXCEPT !.alive = FALSE]
                      ELSE player_proc
    /\ Go(a, <<>>) /\ Ghost(a)
    /\ UNCHANGED <<player_lock, orphans, current_mode, store, schedloc, pargs, old_cv, btn_branch, hist>>

\* terminate() or wait(timeout=2) raises and kill() raises too (except: pass): the
\* process is still running when stop_audio goes on
sa_term_fail_propagates(a) ==
    /\ At(a, "sa_term")
    /\ Alive(player_proc)
    /\ todo' = [todo EXCEPT ![a] = <<>>]
    /\ player_lock' = NULL
    /\ Ghost(a)
    /\ UNCHANGED <<player_proc, orphans, current_mode, store, schedloc, pargs, old_cv, btn_branch, hist>>
sa_term_fail(a) ==
    /\ At(a, "sa_term")
    /\ Alive(player_proc)
    /\ Go(a, <<>>) /\ Ghost(a)
    /\ UNCHANGED <<playback, store, schedloc, pargs, old_cv, btn_branch, hist>>

sa_clear(a) ==
    /\ At(a, "sa_clear")
    /\ player_proc' = NoProc
    /\ orphans' = IF Alive(player_proc) THEN Min(orphans + 1, MaxCount) ELSE orphans
    /\ Go(a, <<>>) /\ Ghost(a)
    /\ UNCHANGED <<player_lock, current_mode, store, schedloc, pargs, old_cv, btn_branch, hist>>

sa_idle(a) ==
    /\ At(a, "sa_idle")
    /\ current_mode' = "idle"
    /\ Go(a, <<>>) /\ Ghost(a)
    /\ UNCHANGED <<player_lock, player_proc, orphans, store, schedloc, pargs, old_cv, btn_branch, hist>>

sa_unlock(a) ==
    /\ At(a, "sa_unlock")
    /\ player_lock' = NULL
    /\ Go(a, <<>>) /\ Ghost(a)
    /\ UNCHANGED <<player_proc, orphans, current_mode, store, schedloc, pargs, old_cv, btn_branch, hist>>

\* --------------------------------------------------------------- play_vlc
pv_lock(a) ==
    /\ At(a, "pv_lock")
    /\ player_lock = NULL
    /\ player_lock' = a
    /\ Go(a, <<>>) /\ Ghost(a)
    /\ UNCHANGED <<player_proc, orphans, current_mode, store, schedloc, pargs, old_cv, btn_branch, hist>>

\* if player_proc and player_proc.poll() is None: stop_audio()
pv_check(a) ==
    /\ At(a, "pv_check")
    /\ Go(a, IF Alive(player_proc) THEN stop_audio_body ELSE <<>>)
    /\ Ghost(a)
    /\ UNCHANGED <<playback, store, schedloc, pargs, old_cv, btn_branch, hist>>

\* player_proc = subprocess.Popen(args)
pv_popen(a) ==
    /\ At(a, "pv_popen")
    /\ player_proc' = [target |-> pargs[a].target, loop |-> pargs[a].loop, alive |-> TRUE]
    /\ orphans' = IF Alive(player_proc) THEN Min(orphans + 1, MaxCount) ELSE orphans
    /\ Go(a, <<>>) /\ Ghost(a)
    /\ UNCHANGED <<player_lock, current_mode, store, schedloc, pargs, old_cv, btn_branch, hist>>

pv_unlock(a) ==
    /\ At(a, "pv_unlock")
    /\ player_lock' = NULL
    /\ Go(a, <<>>) /\ Ghost(a)
    /\ UNCHANGED <<player_proc, orphans, current_mode, store, schedloc, pargs, old_cv, btn_branch, hist>>

\* ------------------------------------------- start_alarm / start_content
\* set_system_volume(get_setting("volume_percent")): the amixer calls return, with
\* whatever return codes (none zero: a warning is logged); subprocess.run raising
\* is the step "vol" of CanRaise
vol(a) ==
    /\ At(a, "vol")
    /\ Go(a, <<>>) /\ Ghost(a)
    /\ UNCHANGED <<playback, store, schedloc, pargs, old_cv, btn_branch, hist>>

\* tone = pick_random_alarmtone()
pick_tone(a) ==
    /\ At(a, "pick_tone")
    /\ \E tone \in (IF TonePool # {} THEN TonePool ELSE {alarm_tone_path}) :
          pargs' = [pargs EXCEPT ![a] = [target |-> tone, loop |-> TRUE]]
    /\ Go(a, <<>>) /\ Ghost(a)
    /\ UNCHANGED <<playback, store, schedloc, old_cv, btn_branch, hist>>

\* cval = get_setting("content_value")
get_cval(a) ==
    /\ At(a, "get_cval")
    /\ pargs' = [pargs EXCEPT ![a] = [target |-> content_value, loop |-> FALSE]]
    /\ Go(a, <<>>) /\ Ghost(a)
    /\ UNCHANGED <<playback, store, schedloc, old_cv, btn_branch, hist>>

mode_alarm(a) ==
    /\ At(a, "mode_alarm")
    /\ current_mode' = "alarm"
    /\ pargs' = [pargs EXCEPT ![a] = NoArgs]
    /\ Go(a, <<>>) /\ Ghost(a)
    /\ UNCHANGED <<player_lock, player_proc, orphans, store, schedloc, old_cv, btn_branch, hist>>

mode_content(a) ==
    /\ At(a, "mode_content")
    /\ current_mode' = "content"
    /\ pargs' = [pargs EXCEPT ![a] = NoArgs]
    /\ Go(a, <<>>) /\ Ghost(a)
    /\ UNCHANGED <<player_lock, player_proc, orphans, store, schedloc, old_cv, btn_branch, hist>>

\* -------------------------------------------------------- scheduler_thread
\* one pass of the loop body up to the break: now_dt = datetime.now(); list_alarms();
\* the for loop
tick_at(n) ==
    /\ At("sched", "tick")
    /\ now_dt' = n
    /\ \E order \in list_alarms(alarms) :
          LET d == first_due(order, alarms, last_tick, n)
          IN  /\ due' = d
              /\ Go("sched", (IF d # NoId THEN due_branch ELSE <<>>) \o <<"advance">>)
              /\ lapsed' = [k \in DOMAIN lapsed |->
                               IF /\ d # NoId /\ k[1] # d /\ k[1] \in DOMAIN alarms
                                  /\ k[2] = today_s(n)
                                  /\ is_due(alarms[k[1]], last_tick, n)
                               THEN "open" ELSE lapsed[k]]
    /\ started' = FALSE
    /\ owed' = NoId
    /\ Ghost("sched")
    /\ UNCHANGED <<playback, store, last_tick, fires, pargs, old_cv, btn_branch, ua, rearmed>>

\* the clock never steps back
tick == \E n \in {m \in Instants : m >= now_dt} : tick_at(n)

\* the clock is set by hand or by NTP: any reading
tick_anyclock == \E n \in Instants : tick_at(n)

\* set_last_fired(a["id"], today_s): UPDATE alarms SET last_fired_date=? WHERE id=?
set_last_fired ==
    /\ At("sched", "set_last_fired")
    /\ alarms' = IF due \in DOMAIN alarms
                 THEN [alarms EXCEPT ![due].last_fired_date = today_s(now_dt)]
                 ELSE alarms
    /\ rearmed' = IF due \in DOMAIN rearmed THEN [rearmed EXCEPT ![due] = NoDate] ELSE rearmed
    /\ Go("sched", <<>>) /\ Ghost("sched")
    /\ UNCHANGED <<playback, content_value, schedloc, pargs, old_cv, btn_branch, ua, lapsed, owed>>

\* start_alarm() is called for the due alarm
call_start_alarm ==
    /\ At("sched", "call_start_alarm")
    /\ started' = TRUE
    /\ fires' = [fires EXCEPT ![<<due, today_s(now_dt)>>] = Min(@ + 1, MaxCount)]
    /\ Go("sched", start_alarm_body) /\ Ghost("sched")
    /\ UNCHANGED <<playback, store, last_tick, now_dt, due, pargs, old_cv, btn_branch, hist>>

\* last_tick = now_dt; time.sleep(0.25)
advance ==
    /\ At("sched", "advance")
    /\ last_tick' = now_dt
    /\ due' = NoId /\ started' = FALSE
    /\ todo' = [todo EXCEPT !["sched"] = <<"tick">>]
    /\ lapsed' = [k \in DOMAIN lapsed |-> IF lapsed[k] = "open" THEN "done" ELSE lapsed[k]]
    /\ Ghost("sched")
    /\ UNCHANGED <<playback, store, now_dt, fires, pargs, old_cv, btn_branch, ua, rearmed, owed>>

\* -------------------------------------------------------- on_button_pressed
\* gpiozero calls the handler
press ==
    /\ todo["btn"] = <<>>
    /\ todo' = [todo EXCEPT !["btn"] = <<"btn_if">>]
    /\ btn_branch' = "none"
    /\ Ghost("btn")
    /\ UNCHANGED <<playback, store, schedloc, pargs, old_cv, hist>>

\* if current_mode == "alarm": stop_audio(); start_content()
btn_if ==
    /\ At("btn", "btn_if")
    /\ IF current_mode = "alarm"
       THEN Go("btn", button_alarm_branch) /\ btn_branch' = "alarm"
       ELSE Go("btn", <<"btn_elif">>) /\ btn_branch' = "none"
    /\ btn_solo' = TRUE
    /\ UNCHANGED <<playback, store, schedloc, pargs, old_cv, hist>>

\* elif current_mode == "content": stop_audio()
btn_elif_else ==
    /\ At("btn", "btn_elif")
    /\ Go("btn", stop_audio_body) /\ btn_branch' = "content"
    /\ btn_solo' = TRUE
    /\ UNCHANGED <<playback, store, schedloc, pargs, old_cv, hist>>
btn_elif ==
    /\ At("btn", "btn_elif")
    /\ IF current_mode = "content"
       THEN Go("btn", stop_audio_body) /\ btn_branch' = "content"
       ELSE Go("btn", <<>>) /\ btn_branch' = "none"
    /\ btn_solo' = TRUE
    /\ UNCHANGED <<playback, store, schedloc, pargs, old_cv, hist>>

\* ------------------------------------------------ api_control, api_settings
\* POST /api/control: the steps each action runs
control_actions ==
    [test_alarm |-> start_alarm_body,
     test_content |-> stop_audio_body \o start_content_body,
     stop |-> stop_audio_body]

api_control_with(actions) ==
    /\ todo["ctl"] = <<>>
    /\ \E action \in actions : todo' = [todo EXCEPT !["ctl"] = control_actions[action]]
    /\ Ghost("ctl")
    /\ UNCHANGED <<playback, store, schedloc, pargs, old_cv, btn_branch, hist>>

api_control == api_control_with({"test_alarm", "test_content", "stop"})

\* only POST /api/control {"action": "stop"} is sent
api_stop == api_control_with({"stop"})

\* POST /api/settings, with or without volume_percent in the payload
api_settings ==
    /\ todo["ctl"] = <<>>
    /\ \E withvol \in BOOLEAN :
          todo' = [todo EXCEPT !["ctl"] =
                      <<"st_old", "st_set">> \o (IF withvol THEN <<"st_vol">> ELSE <<>>) \o <<"st_new">>]
    /\ Ghost("ctl")
    /\ UNCHANGED <<playback, store, schedloc, pargs, old_cv, btn_branch, hist>>

\* old_content_value = get_setting("content_value")
st_old ==
    /\ At("ctl", "st_old")
    /\ old_cv' = content_value
    /\ Go("ctl", <<>>) /\ Ghost("ctl")
    /\ UNCHANGED <<playback, store, schedloc, pargs, btn_branch, hist>>

\* set_setting(k, data[k]) for the keys of the payload
st_set ==
    /\ At("ctl", "st_set")
    /\ \E v \in ContentValues : content_value' = v
    /\ Go("ctl", <<>>) /\ Ghost("ctl")
    /\ UNCHANGED <<playback, alarms, schedloc, pargs, old_cv, btn_branch, hist>>

\* if "volume_percent" in data: set_system_volume(int(get_setting("volume_percent")))
st_vol ==
    /\ At("ctl", "st_vol")
    /\ Go("ctl", <<>>) /\ Ghost("ctl")
    /\ UNCHANGED <<playback, store, schedloc, pargs, old_cv, btn_branch, hist>>

\* if current_mode == "content" and new_content_value != old_content_value: restart
st_new ==
    /\ At("ctl", "st_new")
    /\ Go("ctl", IF current_mode = "content" /\ content_value # old_cv
                 THEN stop_audio_body \o start_content_body ELSE <<>>)
    /\ old_cv' = NULL
    /\ Ghost("ctl")
    /\ UNCHANGED <<playback, store, schedloc, pargs, btn_branch, hist>>

\* ------------------------------------------- api_alarm_one, update_alarm
\* JSON payloads of PATCH /api/alarms/<id>: any subset of the keys time_hhmm (hour
\* and minute as sent, here of the last two minutes of the day), days_mask, enabled
RawTimes == {<<HoursPerDay - 1, MinPerHour - 2>>, <<HoursPerDay - 1, MinPerHour - 1>>}
EditMasks == {31, 127}
Payloads ==
    {[k \in {} |-> 0]}
    \cup [time_hhmm : RawTimes] \cup [days_mask : EditMasks] \cup [enabled : BOOLEAN]
    \cup [time_hhmm : RawTimes, days_mask : EditMasks]
    \cup [time_hhmm : RawTimes, enabled : BOOLEAN]
    \cup [days_mask : EditMasks, enabled : BOOLEAN]
    \cup [time_hhmm : RawTimes, days_mask : EditMasks, enabled : BOOLEAN]

\* the arguments api_alarm_one passes on: time_hhmm normalized, the rest as sent
Normalized(data) ==
    [k \in DOMAIN data |-> IF k = "time_hhmm" THEN normalize_hhmm(data[k]) ELSE data[k]]

\* PATCH /api/alarms/<alarm_id> with a payload that passes the validation
api_alarm_one ==
    /\ todo["ctl"] = <<>>
    /\ \E alarm_id \in AlarmIds, data \in Payloads :
          /\ "time_hhmm" \in DOMAIN data => ValidHHMM(data.time_hhmm)
          /\ "days_mask" \in DOMAIN data => data.days_mask > 0 /\ data.days_mask <= 127
          /\ ua' = [at |-> "request", id |-> alarm_id, data |-> data]
    /\ todo' = [todo EXCEPT !["ctl"] = <<"ua_read", "ua_write">>]
    /\ Ghost("ctl")
    /\ UNCHANGED <<playback, store, schedloc, pargs, old_cv, btn_branch, rearmed, lapsed, owed>>

\* row = SELECT * FROM alarms WHERE id=?; if not row: return False; new_* computed
ua_read ==
    /\ At("ctl", "ua_read")
    /\ IF ua.id \in DOMAIN alarms
       THEN /\ ua' = [at |-> "write", id |-> ua.id,
                      new |-> update_alarm(alarms[ua.id], Normalized(ua.data))]
            /\ Go("ctl", <<>>)
       ELSE /\ ua' = NoUa
            /\ todo' = [todo EXCEPT !["ctl"] = <<>>]
    /\ Ghost("ctl")
    /\ UNCHANGED <<playback, store, schedloc, pargs, old_cv, btn_branch, rearmed, lapsed, owed>>

\* the edit changes the stored time or mask, or switches the alarm on
Rearms(old, new) ==
    \/ new.time_hhmm # old.time_hhmm
    \/ new.days_mask # old.days_mask
    \/ (old.enabled = 0 /\ new.enabled = 1)

\* UPDATE alarms SET time_hhmm=?, days_mask=?, enabled=?, last_fired_date=? WHERE id=?
ua_write ==
    /\ At("ctl", "ua_write")
    /\ alarms' = IF ua.id \in DOMAIN alarms THEN [alarms EXCEPT ![ua.id] = ua.new] ELSE alarms
    /\ rearmed' = IF ua.id \in DOMAIN alarms /\ Rearms(alarms[ua.id], ua.new)
                  THEN [rearmed EXCEPT ![ua.id] = alarms[ua.id].last_fired_date]
                  ELSE rearmed
    /\ ua' = NoUa
    /\ Go("ctl", <<>>) /\ Ghost("ctl")
    /\ UNCHANGED <<playback, content_value, schedloc, pargs, old_cv, btn_branch, lapsed, owed>>

\* ------------------------------------------------------------- exceptions
\* steps that can raise: the sqlite calls, subprocess.run (amixer) and subprocess.Popen (cvlc)
CanRaise == {"tick", "set_last_fired", "vol", "pick_tone", "get_cval", "pv_popen"}

\* the steps of the scheduler inside try: ... except Exception:
TryBlock_listonly == {"tick"}
TryBlock ==
    {"tick", "set_last_fired", "call_start_alarm", "advance",
     "vol", "pick_tone", "pv_lock", "pv_check", "pv_popen", "pv_unlock", "mode_alarm",
     "sa_lock", "sa_term", "sa_clear", "sa_idle", "sa_unlock"}

\* where an exception raised at `label` takes the actor: the scheduler into its
\* except clause, a callback or request handler out of the handler
unwind(a, label) ==
    IF a = "sched"
    THEN (IF label \in TryBlock THEN <<"except">> ELSE <<"dead">>)
    ELSE <<>>

\* the current step raises; a with player_lock block it is in releases the lock
raise(a) ==
    /\ todo[a] # <<>> /\ Head(todo[a]) \in CanRaise
    /\ todo' = [todo EXCEPT ![a] = unwind(a, Head(todo[a]))]
    /\ player_lock' = IF player_lock = a THEN NULL ELSE player_lock
    /\ pargs' = [pargs EXCEPT ![a] = NoArgs]
    /\ owed' = IF a = "sched" /\ Head(todo[a]) = "set_last_fired" THEN due ELSE owed
    /\ Ghost(a)
    /\ UNCHANGED <<player_proc, orphans, current_mode, store, schedloc, old_cv, btn_branch,
                   ua, rearmed, lapsed>>

\* except Exception: log.exception(...); time.sleep(0.25); the next pass of the loop
except ==
    /\ At("sched", "except")
    /\ todo' = [todo EXCEPT !["sched"] = <<"tick">>]
    /\ due' = NoId /\ started' = FALSE
    /\ lapsed' = [k \in DOMAIN lapsed |->
                     IF lapsed[k] = "open" THEN (IF started THEN "raised" ELSE "no")
                     ELSE lapsed[k]]
    /\ Ghost("sched")
    /\ UNCHANGED <<playback, store, last_tick, now_dt, fires, pargs, old_cv, btn_branch, ua, rearmed, owed>>

\* ------------------------------------------------------------ specification
AlarmRows(times, masks, flags, dates) ==
    [time_hhmm : times, days_mask : masks, enabled : flags, last_fired_date : dates]

LastMinute == HHMM(HoursPerDay - 1, MinPerHour - 1)
PrevMinute == HHMM(HoursPerDay - 1, MinPerHour - 2)
MaxInstant == (FirstDay + NumDays) * TicksPerDay - 1

InitCommon ==
    /\ now_dt = last_tick
    /\ todo = [a \in Actors |-> IF a = "sched" THEN <<"tick">> ELSE <<>>]
    /\ player_lock = NULL
    /\ player_proc = NoProc
    /\ orphans = 0
    /\ current_mode = "idle"
    /\ due = NoId /\ started = FALSE
    /\ pargs = [a \in Actors |-> NoArgs]
    /\ old_cv = NULL
    /\ fires = [k \in AlarmIds \X Dates |-> 0]
    /\ btn_branch = "none" /\ btn_solo = FALSE
    /\ ua = NoUa
    /\ rearmed = [id \in AlarmIds |-> NoDate]
    /\ lapsed = [k \in AlarmIds \X Dates |-> "no"]
    /\ owed = NoId

\* The service starts a moment before the one stored alarm, which rings every day
\* in the last minute of the day, is due.
Init ==
    /\ last_tick = MaxInstant - SecPerMin
    /\ InitCommon
    /\ content_value \in ContentValues
    /\ alarms \in [{1} -> AlarmRows({LastMinute}, {127}, {1}, {NoDate})]

\* The service starts at any instant, with one stored alarm of any time, mask,
\* enabled flag and a last_fired_date that is not in the future.
InitSched ==
    /\ last_tick \in Instants
    /\ InitCommon
    /\ content_value = "stream1"
    /\ alarms \in [{1} -> AlarmRows(TimeStrings, MaskChoices, {0, 1}, {NoDate} \cup Dates)]
    /\ \A id \in DOMAIN alarms : alarms[id].last_fired_date <= today_s(last_tick)

\* The service starts at the first instant with one alarm that rings every day.
InitClock ==
    /\ last_tick = FirstDay * TicksPerDay
    /\ InitCommon
    /\ content_value = "stream1"
    /\ alarms \in [{1} -> AlarmRows({LastMinute}, {127}, {1}, {NoDate})]

PlayStep(a) ==
    \/ sa_lock(a) \/ sa_term(a) \/ sa_clear(a) \/ sa_idle(a) \/ sa_unlock(a)
    \/ pv_lock(a) \/ pv_check(a) \/ pv_popen(a) \/ pv_unlock(a)
    \/ vol(a) \/ pick_tone(a) \/ mode_alarm(a)

ContentStep(a) == get_cval(a) \/ mode_content(a)

SchedStep == set_last_fired \/ call_start_alarm \/ advance
ButtonStep == press \/ btn_if \/ btn_elif
SettingsStep == api_settings \/ st_old \/ st_set \/ st_vol \/ st_new

\* all three actors, a clock that never steps back, no exception
Next ==
    \/ \E a \in Actors : PlayStep(a) \/ ContentStep(a)
    \/ tick \/ SchedStep
    \/ ButtonStep
    \/ api_control \/ SettingsStep

Spec == Init /\ [][Next]_vars

\* the scheduler alone (no press, no request), steps may raise
SchedPlay ==
    \/ pv_lock("sched") \/ pv_check("sched") \/ pv_popen("sched") \/ pv_unlock("sched")
    \/ vol("sched") \/ pick_tone("sched") \/ mode_alarm("sched")

NextSched == tick \/ SchedStep \/ SchedPlay \/ raise("sched") \/ except

SpecSched == InitSched /\ [][NextSched]_vars

\* The service starts a moment before the earlier of the last two minutes of the
\* day, with two alarms that ring every day, each in one of these two minutes.
InitTwo ==
    /\ last_tick = MaxInstant - 2 * SecPerMin
    /\ InitCommon
    /\ content_value = "stream1"
    /\ alarms \in [AlarmIds -> AlarmRows({PrevMinute, LastMinute}, {127}, {1}, {NoDate})]

SpecTwo == InitTwo /\ [][NextSched]_vars

\* The service starts a moment before its one alarm, set to the last minute but
\* one of the day, is due.
InitEdit ==
    /\ last_tick = MaxInstant - 2 * SecPerMin
    /\ InitCommon
    /\ content_value = "stream1"
    /\ alarms \in [{1} -> AlarmRows({PrevMinute}, {127}, {0, 1}, {NoDate})]

EditStep == api_alarm_one \/ ua_read \/ ua_write

\* the scheduler and PATCH requests of the control surface
NextEdit == tick \/ SchedStep \/ SchedPlay \/ EditStep

SpecEdit == InitEdit /\ [][NextEdit]_vars

\* control requests alone, with a player that may survive terminate() and kill()
NextFail ==
    \/ api_control
    \/ PlayStep("ctl") \/ ContentStep("ctl")
    \/ sa_term_fail("ctl")

SpecFail == Init /\ [][NextFail]_vars

\* the scheduler under a clock that can be set back, and stop requests
NextClock ==
    \/ tick_anyclock \/ SchedStep \/ SchedPlay
    \/ api_stop
    \/ sa_lock("ctl") \/ sa_term("ctl") \/ sa_clear("ctl") \/ sa_idle("ctl") \/ sa_unlock("ctl")

SpecClock == InitClock /\ [][NextClock]_vars

\* threads are scheduled fairly, and a thread waiting for player_lock gets it
\* if it is free again and again
Fairness ==
    \A a \in Actors :
        /\ WF_vars(PlayStep(a) \/ ContentStep(a))
        /\ SF_vars(sa_lock(a))
        /\ SF_vars(pv_lock(a))

FairSpec == Init /\ [][Next]_vars /\ Fairness

\* ------------------------------------------------------------------ claims
\* labels of the steps of start_alarm, start_content and stop_audio
CallLabels ==
    {"sa_lock", "sa_term", "sa_clear", "sa_idle", "sa_unlock",
     "pv_lock", "pv_check", "pv_popen", "pv_unlock",
     "vol", "pick_tone", "get_cval", "mode_alarm", "mode_content"}
\* actor a is inside a call of start_alarm, start_content or stop_audio
InCall(a) == todo[a] # <<>> /\ Head(todo[a]) \in CallLabels
Quiescent == \A a \in Actors : ~InCall(a)
AlarmTones == TonePool \cup {alarm_tone_path}
\* the alarm table row's scheduled instant on the date of the clock reading t
ScheduledOn(row, date) ==
    date * TicksPerDay
    + (row.time_hhmm[1] * 10 + row.time_hhmm[2]) * MinPerHour * SecPerMin
    + (row.time_hhmm[3] * 10 + row.time_hhmm[4]) * SecPerMin
\* the scheduler has just run the for loop over the snapshot
JustEvaluated ==
    /\ todo["sched"] # <<>>
    /\ Head(todo["sched"]) \in {"set_last_fired", "advance"}
    /\ ~started

\* C1: in every reachable state at most one player process is alive; a content
\* player is never spawned while the alarm player is still alive.
C1_AtMostOnePlayer == NLive <= 1

\* C1 witness: the button handler, having read mode alarm, has stopped the alarm
\* player and spawned the content player.
C1_Witness ==
    /\ btn_branch = "alarm" /\ btn_solo
    /\ todo["btn"] = <<"pv_unlock", "mode_content">>
    /\ Alive(player_proc) /\ ~player_proc.loop

\* C2: whenever no start_alarm/start_content/stop_audio call is in progress,
\* idle iff no player is alive, alarm iff exactly one looping alarm-tone player
\* is alive, content iff exactly one non-looping content player is alive.
C2_ModeMatchesPlayer ==
    Quiescent =>
        /\ (current_mode = "idle") <=> (NLive = 0)
        /\ (current_mode = "alarm") <=>
              (NLive = 1 /\ Alive(player_proc) /\ player_proc.loop
                 /\ player_proc.target \in AlarmTones)
        /\ (current_mode = "content") <=>
              (NLive = 1 /\ Alive(player_proc) /\ ~player_proc.loop
                 /\ player_proc.target \in ContentValues)

\* C3: every call of start_alarm, start_content or stop_audio by any actor
\* eventually returns.
C3_CallsReturn == \A a \in Actors : InCall(a) ~> ~InCall(a)

\* C4: the scheduler calls start_alarm for one alarm at most once for any one
\* calendar date, whatever the sequence of clock readings.
C4_OncePerDate == \A k \in DOMAIN fires : fires[k] <= 1

\* C5: with a clock that never steps back, an enabled alarm whose weekday bit
\* matches, not yet fired on that date, whose scheduled instant lies after the
\* previous tick and at or before this tick's now, is the alarm this tick fires.
C5_NoCrossingMissed ==
    \A id \in DOMAIN alarms : \A date \in Dates :
        ( /\ JustEvaluated
          /\ alarms[id].enabled = 1
          /\ BitSet(alarms[id].days_mask, date % DaysPerWeek)
          /\ alarms[id].last_fired_date # date
          /\ last_tick < ScheduledOn(alarms[id], date)
          /\ ScheduledOn(alarms[id], date) <= now_dt )
        => due = id

\* C6: an enabled alarm whose weekday bit is set and whose last_fired_date is
\* not today's date is due in a tick iff last_tick < scheduled <= now, scheduled
\* being today's date at the alarm's HH:MM:00.
C6_DueIffCrossed ==
    \A id \in DOMAIN alarms :
        ( /\ JustEvaluated
          /\ alarms[id].enabled = 1
          /\ BitSet(alarms[id].days_mask, (now_dt \div TicksPerDay) % DaysPerWeek)
          /\ alarms[id].last_fired_date # now_dt \div TicksPerDay )
        => ( (due = id) <=>
               ( /\ last_tick < ScheduledOn(alarms[id], now_dt \div TicksPerDay)
                 /\ ScheduledOn(alarms[id], now_dt \div TicksPerDay) <= now_dt ) )

\* C6 witness: now equals the scheduled instant, last_tick is the reading just
\* before it, and the alarm is due.
C6_Witness ==
    /\ JustEvaluated /\ due = 1
    /\ now_dt = ScheduledOn(alarms[1], now_dt \div TicksPerDay)
    /\ last_tick = now_dt - 1

\* C7: between the button handler's read of current_mode and the end of the
\* action chosen from it, no step of another actor changes the playback state.
C7_ButtonSerialized ==
    [][ ( /\ todo["btn"] # <<>>
          /\ btn_branch # "none"
          /\ todo'["btn"] = todo["btn"] )
        => UNCHANGED <<current_mode, player_proc>> ]_vars

C9_MarkedBeforeStart ==
    started =>
        /\ due \in DOMAIN alarms
        /\ alarms[due].last_fired_date = today_s(now_dt)

\* C9 witness: start_alarm was called and raised; the alarm stays marked.
C9_Witness ==
    /\ started /\ todo["sched"] = <<"except">>
    /\ alarms[due].last_fired_date = today_s(now_dt)

\* C10: no exception raised in a tick ends scheduler_thread: the scheduler is
\* never dead, and from its except clause it goes on to the next tick.
C10_SchedulerSurvives ==
    [][ /\ todo'["sched"] # <<"dead">>
        /\ (todo["sched"] = <<"except">> => todo'["sched"] \in {<<"except">>, <<"tick">>}) ]_vars

\* C10 witness: an exception raised by start_alarm's Popen has been caught.
C10_Witness ==
    /\ todo["sched"] = <<"except">> /\ started
    /\ player_proc = NoProc

\* the alarm id is enabled, its weekday bit matches, it has not fired on the date
\* of now, and its scheduled instant lies in (last_tick, now]
CrossedNow(id) ==
    /\ alarms[id].enabled = 1
    /\ BitSet(alarms[id].days_mask, (now_dt \div TicksPerDay) % DaysPerWeek)
    /\ alarms[id].last_fired_date # now_dt \div TicksPerDay
    /\ last_tick < ScheduledOn(alarms[id], now_dt \div TicksPerDay)
    /\ ScheduledOn(alarms[id], now_dt \div TicksPerDay) <= now_dt

\* the alarm a tick picks is the first in time order among those that crossed
C11_FirstInTimeOrder ==
    JustEvaluated =>
        /\ (due = NoId) <=> (\A id \in DOMAIN alarms : ~CrossedNow(id))
        /\ due # NoId =>
              \A id \in DOMAIN alarms :
                  CrossedNow(id) => ScheduledOn(alarms[due], 0) <= ScheduledOn(alarms[id], 0)

ChangesSchedule(data, row) ==
    \/ /\ "time_hhmm" \in DOMAIN data
       /\ \/ data.time_hhmm[1] # ParseInt(SubSeq(row.time_hhmm, 1, 2))
          \/ data.time_hhmm[2] # ParseInt(SubSeq(row.time_hhmm, 3, 4))
    \/ ("days_mask" \in DOMAIN data /\ data.days_mask # row.days_mask)
    \/ ("enabled" \in DOMAIN data /\ data.enabled /\ row.enabled = 0)

\* C12: update_alarm on an existing alarm writes last_fired_date = NULL when the
\* new time or the new mask differs from the stored one or enabled goes 0 to 1,
\* and in every other case writes back the last_fired_date of the row it read.
C12_ClearsIffScheduleChanges ==
    [][ /\ (ua.at = "request" /\ ua'.at = "write") =>
              /\ ChangesSchedule(ua.data, alarms[ua.id]) => ua'.new.last_fired_date = NoDate
              /\ ~ChangesSchedule(ua.data, alarms[ua.id]) =>
                     ua'.new.last_fired_date = alarms[ua.id].last_fired_date
        /\ (ua.at = "write" /\ ua'.at = "none") =>
              alarms'[ua.id].last_fired_date = ua.new.last_fired_date ]_vars

\* C12 witness: an edit that only switches the alarm off, read from a row with a
\* fired date, is about to write that date back.
C12_Witness ==
    /\ ua.at = "write"
    /\ ua.new.enabled = 0 /\ alarms[ua.id].enabled = 1
    /\ ua.new.last_fired_date # NoDate
    /\ ua.new.last_fired_date = alarms[ua.id].last_fired_date

\* a step in which the scheduler runs the for loop over a fresh snapshot
TickEvaluates ==
    /\ At("sched", "tick")
    /\ todo'["sched"] # <<>> /\ Head(todo'["sched"]) \in {"set_last_fired", "advance"}

\* C13: after an alarm fired today and an edit changed its time or mask or
\* switched it from disabled to enabled, a later tick of that day that crosses its
\* scheduled time, with the weekday bit set and the alarm enabled, finds it due
\* (and so fires it again).
C13_EditedAlarmFiresAgain ==
    [][ \A id \in DOMAIN alarms :
          ( /\ TickEvaluates
            /\ rearmed[id] = now_dt' \div TicksPerDay
            /\ alarms[id].enabled = 1
            /\ BitSet(alarms[id].days_mask, (now_dt' \div TicksPerDay) % DaysPerWeek)
            /\ last_tick < ScheduledOn(alarms[id], now_dt' \div TicksPerDay)
            /\ ScheduledOn(alarms[id], now_dt' \div TicksPerDay) <= now_dt' )
          => due' = id ]_vars

\* C13 witness: the alarm fired, its time was then moved to a later minute, and
\* the scheduler has called start_alarm for it a second time on the same date.
C13_Witness ==
    /\ started /\ due = 1
    /\ fires[<<1, today_s(now_dt)>>] = 2
    /\ alarms[1].time_hhmm = LastMinute

\* C17: a fired date in the store is replaced only by a set_last_fired of the
\* scheduler or by an edit that changes the stored time or mask or switches the
\* alarm on; an update_alarm that changes none of these never writes an older
\* value over it.
C17_FiredDateNotLost ==
    [][ \A id \in DOMAIN alarms :
          ( /\ alarms[id].last_fired_date # NoDate
            /\ alarms'[id].last_fired_date # alarms[id].last_fired_date )
          => \/ (At("sched", "set_last_fired") /\ todo'["sched"] # todo["sched"])
             \/ alarms'[id].time_hhmm # alarms[id].time_hhmm
             \/ alarms'[id].days_mask # alarms[id].days_mask
             \/ (alarms[id].enabled = 0 /\ alarms'[id].enabled = 1) ]_vars

\* after stop_audio's body, and after the Popen of a start_content that follows it
C14_StateAfterStop ==
    /\ At("ctl", "sa_unlock") => (player_proc = NoProc /\ current_mode = "idle")
    /\ todo["ctl"] = start_content_body => (player_proc = NoProc /\ current_mode = "idle")
    /\ todo["ctl"] = <<"mode_alarm">> =>
          (Alive(player_proc) /\ player_proc.loop /\ player_proc.target \in AlarmTones)
    /\ todo["ctl"] = <<"mode_content">> =>
          (Alive(player_proc) /\ ~player_proc.loop /\ player_proc.target = content_value)
    /\ (todo["ctl"] = <<>> /\ current_mode # "idle") => Alive(player_proc)

\* C14: whatever terminate(), wait() and kill() do, stop_audio goes on to clear
\* player_proc and set idle and returns, and a start_alarm or start_content that
\* follows spawns its player and sets its mode.
C14_FailedTerminateNotStuck ==
    [][ /\ (At("ctl", "sa_term") /\ todo'["ctl"] # todo["ctl"]) =>
              todo'["ctl"] = Tail(todo["ctl"])
        /\ C14_StateAfterStop' ]_vars

\* C14 witness: a player survived its stop_audio, and the start_content after it
\* has spawned the content player and set the mode.
C14_Witness ==
    /\ orphans >= 1
    /\ todo["ctl"] = <<>>
    /\ current_mode = "content"
    /\ Alive(player_proc) /\ ~player_proc.loop

\* C15: every step of a stop_audio that finds no player and mode idle leaves
\* player_proc, the set of live processes and current_mode as they are and goes on
\* to the next step (no error), and stop_audio leaves no player behind, so a
\* second call changes nothing.
C15_StopWhenIdleIsNoOp ==
    [][ \A a \in Actors :
          /\ ( /\ todo[a] # <<>>
               /\ Head(todo[a]) \in {"sa_lock", "sa_term", "sa_clear", "sa_idle", "sa_unlock"}
               /\ todo'[a] # todo[a]
               /\ player_proc = NoProc /\ current_mode = "idle" )
             => /\ UNCHANGED <<player_proc, orphans, current_mode>>
                /\ todo'[a] = Tail(todo[a])
          /\ (At(a, "sa_unlock") => player_proc = NoProc)' ]_vars

\* C15 witness: a control request's stop_audio has run its body with no player
\* and mode idle.
C15_Witness ==
    /\ At("ctl", "sa_unlock") /\ player_lock = "ctl"
    /\ player_proc = NoProc /\ current_mode = "idle" /\ orphans = 0
    /\ \A k \in DOMAIN fires : fires[k] = 0

\* C19: a button handler that reads mode idle at its two tests changes neither
\* current_mode nor player_proc nor any process nor the lock, and returns.
C19_ButtonIdleNoOp ==
    [][ ( /\ todo["btn"] # <<>>
          /\ Head(todo["btn"]) \in {"btn_if", "btn_elif"}
          /\ todo'["btn"] # todo["btn"]
          /\ current_mode = "idle" )
        => /\ UNCHANGED <<player_proc, orphans, current_mode, player_lock>>
           /\ todo'["btn"] = (IF Head(todo["btn"]) = "btn_if" THEN <<"btn_elif">> ELSE <<>>) ]_vars

\* C19 witness: a press that found mode idle has returned, nothing else having run.
C19_Witness ==
    /\ todo["btn"] = <<>> /\ btn_branch = "none" /\ btn_solo
    /\ current_mode = "idle" /\ player_proc = NoProc

\* the weekdays (Mon=0..Sun=6) of the days_mask values in use
MaskDays(mask) ==
    CASE mask = 31 -> {0, 1, 2, 3, 4}
      [] mask = 96 -> {5, 6}
      [] mask = 127 -> {0, 1, 2, 3, 4, 5, 6}

\* C16: the scheduler calls start_alarm for an alarm only on a tick whose weekday
\* (Monday = 0 .. Sunday = 6) has its bit set in the alarm's days_mask, so never
\* on a Saturday or Sunday for mask 31, and only for an enabled alarm.
C16_WeekdayBitAndEnabled ==
    started =>
        /\ alarms[due].enabled = 1
        /\ (now_dt \div TicksPerDay) % 7 \in MaskDays(alarms[due].days_mask)
        /\ alarms[due].days_mask = 31 => (now_dt \div TicksPerDay) % 7 \notin {5, 6}

\* C16 witness: an alarm with mask 31 has been fired on a Friday.
C16_Witness ==
    /\ started
    /\ alarms[due].days_mask = 31
    /\ (now_dt \div TicksPerDay) % 7 = 4

\* C18: whatever the amixer calls of set_system_volume do, start_alarm and
\* start_content go on to their next step (pick the tone or read the content
\* source, then spawn the player and set the mode).
C18_MixerFailureNotFatal ==
    [][ \A a \in Actors :
          (At(a, "vol") /\ todo'[a] # todo[a]) => todo'[a] = Tail(todo[a]) ]_vars

\* C20: an alarm that a tick found due but could not mark fired, the tick raising
\* in set_last_fired and so not advancing last_tick, is the alarm the next tick
\* that runs its loop finds due (and fires).
C20_FailedTickRetried ==
    [][ (TickEvaluates /\ owed # NoId) => due' = owed ]_vars

====
